---- MODULE Spec2Model ----
(***************************************************************************)
(* Model of the two programs of run-cmake-format:                          *)
(*   github_action_entrypoint.py  (the argument Normalizer) and            *)
(*   run_cmake_tool.py            (the Tool Runner).                       *)
(* Strings the code only passes around are TLA+ strings.  Strings the code *)
(* inspects character by character (the apply literal) are sequences of    *)
(* one-character strings.  Paths the code builds with os.path.join are     *)
(* sequences of pieces.                                                    *)
(***************************************************************************)
EXTENDS Integers, Sequences, FiniteSets, TLC

\* -------------------------------------------------------------------------
\* Bounds of the model
\* -------------------------------------------------------------------------
MaxFiles == 3
MaxStrLen == 2

\* -------------------------------------------------------------------------
\* Program constants
\* -------------------------------------------------------------------------
SUCCESS == 0
TOOL_NOT_FOUND == 11
INVALID_ARGUMENTS == 12
NO_CMAKE_FILES_FOUND == 13
GENERIC_FAILURE == 1
TOOL_SCRIPT_NOT_FOUND == 101
FAILED_TO_RUN_TOOL_SCRIPT == 102
PARSER_ERROR == 2
UNCAUGHT_EXCEPTION == 1

CMAKE_LIST_FILE_NAME == "CMakeLists.txt"
RUN_CMAKE_TOOL_SCRIPT_NAME == "run_cmake_tool.py"

\* class Command(str, Enum): member name -> value
Command == [FORMAT |-> "format", LINT |-> "lint"]

\* class LogLevel(str, Enum): member name -> value
LogLevel == [DEBUG |-> "debug", INFO |-> "info", WARNING |-> "warning", ERROR |-> "error"]

\* Enum lookup by value, Command(s) / LogLevel(s): the member whose value is s,
\* "ValueError" when there is none.
EnumByValue(enum, s) ==
    IF \E m \in DOMAIN enum : enum[m] = s
    THEN CHOOSE m \in DOMAIN enum : enum[m] = s
    ELSE "ValueError"

\* -------------------------------------------------------------------------
\* Character strings and str.lower()
\* -------------------------------------------------------------------------
UpperToLower ==
    [c \in {"T", "R", "U", "E", "F", "A", "L", "S", "Y", "N", "O"} |->
        CASE c = "T" -> "t" [] c = "R" -> "r" [] c = "U" -> "u" [] c = "E" -> "e"
          [] c = "F" -> "f" [] c = "A" -> "a" [] c = "L" -> "l" [] c = "S" -> "s"
          [] c = "Y" -> "y" [] c = "N" -> "n" [] c = "O" -> "o"]

LowerChar(c) == IF c \in DOMAIN UpperToLower THEN UpperToLower[c] ELSE c

UpperChar(c) ==
    IF \E u \in DOMAIN UpperToLower : UpperToLower[u] = c
    THEN CHOOSE u \in DOMAIN UpperToLower : UpperToLower[u] = c
    ELSE c

\* str.lower()
Lower(s) == [i \in 1..Len(s) |-> LowerChar(s[i])]

S_true == <<"t", "r", "u", "e">>
S_yes == <<"y", "e", "s">>
S_1 == <<"1">>
S_false == <<"f", "a", "l", "s", "e">>
S_no == <<"n", "o">>
S_0 == <<"0">>
S_maybe == <<"m", "a", "y", "b", "e">>

\* Mutant of convert_bool_argument: the argument is compared without lower-casing.
convert_bool_argument_no_lower(arg) ==
    IF arg \in {S_true, S_yes, S_1} THEN "True"
    ELSE IF arg \in {S_false, S_no, S_0} THEN "False"
    ELSE "ArgumentTypeError"

\* Mutant of convert_bool_argument: an unrecognized literal defaults to False.
convert_bool_argument_default(arg) ==
    IF Lower(arg) \in {S_true, S_yes, S_1} THEN "True"
    ELSE "False"

\* convert_bool_argument(arg): "True", "False", or raises ArgumentTypeError.
convert_bool_argument(arg) ==
    IF Lower(arg) \in {S_true, S_yes, S_1} THEN "True"
    ELSE IF Lower(arg) \in {S_false, S_no, S_0} THEN "False"
    ELSE "ArgumentTypeError"

\* -------------------------------------------------------------------------
\* Normalizer (github_action_entrypoint.py): pure functions
\* -------------------------------------------------------------------------

\* What parse_args yields when argparse calls parser.error(): SystemExit(2).
SystemExit2 ==
    [error |-> TRUE, command |-> "", path |-> "", apply |-> FALSE, log_level |-> "",
     verbose |-> FALSE, quiet |-> FALSE]

\* Mutant of entrypoint_parse_args: log_level is validated for lint only.
entrypoint_parse_args_lax_level(raw) ==
    LET c == EnumByValue(Command, raw.command)
        a == convert_bool_argument(raw.apply)
        l == EnumByValue(LogLevel, raw.log_level)
    IN  IF c = "ValueError" \/ a = "ArgumentTypeError" \/ (c = "LINT" /\ l = "ValueError")
        THEN SystemExit2
        ELSE [error |-> FALSE, command |-> c, path |-> raw.path, apply |-> (a = "True"),
              log_level |-> l, verbose |-> raw.verbose, quiet |-> raw.quiet]

\* create_argument_parser().parse_args() of the Normalizer on four positionals
\* and the two flags: each positional goes through its type= conversion, and a
\* failed conversion is a parser error.
entrypoint_parse_args(raw) ==
    LET c == EnumByValue(Command, raw.command)
        a == convert_bool_argument(raw.apply)
        l == EnumByValue(LogLevel, raw.log_level)
    IN  IF c = "ValueError" \/ a = "ArgumentTypeError" \/ l = "ValueError"
        THEN SystemExit2
        ELSE [error |-> FALSE, command |-> c, path |-> raw.path, apply |-> (a = "True"),
              log_level |-> l, verbose |-> raw.verbose, quiet |-> raw.quiet]

\* Mutant of LoggingOptions_create: both flags are taken as requested.
LoggingOptions_create_as_requested(verbose, quiet) ==
    [verbose |-> verbose, quiet |-> quiet]

\* LoggingOptions.create(verbose, quiet)
LoggingOptions_create(verbose, quiet) ==
    [verbose |-> (verbose /\ ~quiet), quiet |-> quiet]

\* Mutant of convert_args_to_run_cmake_tool: --apply is appended after the path.
convert_args_apply_last(args, logging_options) ==
    IF args.command = "FORMAT"
    THEN <<"format", args.path>> \o (IF args.apply THEN <<"--apply">> ELSE <<>>)
    ELSE <<"lint", "--log-level", LogLevel[args.log_level], args.path>>

\* Mutant of convert_args_to_run_cmake_tool: lint passes the default level.
convert_args_lint_default_level(args, logging_options) ==
    IF args.command = "FORMAT"
    THEN <<"format">> \o (IF args.apply THEN <<"--apply">> ELSE <<>>) \o <<args.path>>
    ELSE <<"lint", "--log-level", "warning", args.path>>

\* convert_args_to_run_cmake_tool(args, logging_options): the returned list.
convert_args_to_run_cmake_tool(args, logging_options) ==
    IF args.command = "FORMAT"
    THEN <<"format">> \o (IF args.apply THEN <<"--apply">> ELSE <<>>) \o <<args.path>>
    ELSE <<"lint", "--log-level", LogLevel[args.log_level], args.path>>

\* What convert_args_to_run_cmake_tool prints.
convert_args_prints(args, logging_options) ==
    IF logging_options.verbose
    THEN <<"Running entrypoint script",
           IF args.command = "FORMAT" THEN "Running format on path" ELSE "Running lint on path">>
    ELSE <<>>

\* os.environ.get(name, default); environ is a set of <<name, value>> pairs.
environ_get(env, name, default) ==
    IF \E p \in env : p[1] = name
    THEN (CHOOSE p \in env : p[1] = name)[2]
    ELSE default

\* os.path.join(a, b) for a relative b; a path is a sequence of pieces, "/" the separator.
os_path_join(a, b) ==
    IF a = <<>> \/ a[Len(a)] = "/" THEN a \o b ELSE a \o <<"/">> \o b

\* Mutant of get_run_cmake_tool_script_path: the default "." only stands in for
\* an unset variable, an empty value is joined as it is.
get_run_cmake_tool_script_path_unset_only(env) ==
    os_path_join(environ_get(env, "RUN_CMAKE_TOOL_DIR", <<".">>),
                 <<RUN_CMAKE_TOOL_SCRIPT_NAME>>)

\* get_run_cmake_tool_script_path()
get_run_cmake_tool_script_path(env) ==
    LET d == environ_get(env, "RUN_CMAKE_TOOL_DIR", <<>>)
    IN  os_path_join(IF d = <<>> THEN <<".">> ELSE d, <<RUN_CMAKE_TOOL_SCRIPT_NAME>>)

\* -------------------------------------------------------------------------
\* Tool Runner (run_cmake_tool.py): pure functions
\* -------------------------------------------------------------------------

\* The tokens argparse takes for option strings (they start with "-").
OptionLike == {"--apply", "--log-level"}

\* choices= of the lint subparser's --log-level.
LintLogLevelChoices == {"error", "warning", "info", "debug"}

RunnerParseError ==
    [error |-> TRUE, command |-> "", path |-> "", has_path |-> FALSE, apply |-> FALSE,
     log_level |-> ""]

RECURSIVE subparser_parse(_, _, _)
\* One subparser (format or lint) on the tokens after the subcommand: options
\* anywhere, exactly one positional (path).
subparser_parse(toks, i, ns) ==
    IF ns.error THEN ns
    ELSE IF i > Len(toks) THEN (IF ns.has_path THEN ns ELSE RunnerParseError)
    ELSE IF toks[i] \in OptionLike
    THEN IF ns.command = "format" /\ toks[i] = "--apply"
         THEN subparser_parse(toks, i + 1, [ns EXCEPT !.apply = TRUE])
         ELSE IF ns.command = "lint" /\ toks[i] = "--log-level"
                 /\ i + 1 <= Len(toks) /\ toks[i + 1] \in LintLogLevelChoices
         THEN subparser_parse(toks, i + 2, [ns EXCEPT !.log_level = toks[i + 1]])
         ELSE RunnerParseError
    ELSE IF ns.has_path THEN RunnerParseError
    ELSE subparser_parse(toks, i + 1, [ns EXCEPT !.path = toks[i], !.has_path = TRUE])

\* Mutant of runner_parse_args: the lint subparser has no default log level.
runner_parse_args_no_default(argv) ==
    IF Len(argv) = 0 \/ argv[1] \notin {"format", "lint"} THEN RunnerParseError
    ELSE subparser_parse(argv, 2,
            [error |-> FALSE, command |-> argv[1], path |-> "", has_path |-> FALSE,
             apply |-> FALSE, log_level |-> ""])

\* create_argument_parser().parse_args() of the Tool Runner on sys.argv[1:].
runner_parse_args(argv) ==
    IF Len(argv) = 0 \/ argv[1] \notin {"format", "lint"} THEN RunnerParseError
    ELSE subparser_parse(argv, 2,
            [error |-> FALSE, command |-> argv[1], path |-> "", has_path |-> FALSE,
             apply |-> FALSE,
             log_level |-> IF argv[1] = "lint" THEN "warning" ELSE ""])

\* The directories under root_path, as paths relative to it.  One of them is a
\* directory that has the marker file's name.
Dirs ==
    {<<>>, <<"a">>, <<"a", "b">>, <<"c">>, <<"d">>, <<"d", CMAKE_LIST_FILE_NAME>>}

\* The order a directory listing gives names in when nothing reorders it.
DefaultListing == <<"a", "b", "c", "d", CMAKE_LIST_FILE_NAME>>

\* The names a directory entry can have, in the two orders a directory listing
\* can give them.
ListingOrders == {DefaultListing, <<CMAKE_LIST_FILE_NAME, "d", "c", "b", "a">>}

\* The directories that can hold a file named like the marker: those without
\* a subdirectory of that name.
MarkerCandidates == {d \in Dirs : (d \o <<CMAKE_LIST_FILE_NAME>>) \notin Dirs}

\* The subdirectories of dir, in listing order.
subdirs(dir, order) ==
    LET IsChild(n) == (dir \o <<n>>) \in Dirs
    IN  SelectSeq(order, IsChild)

RECURSIVE os_walk(_, _)
RECURSIVE walk_children(_, _, _, _)
\* os.walk(start_path), top-down: the directories visited, in order.
os_walk(dir, order) == <<dir>> \o walk_children(dir, subdirs(dir, order), 1, order)

walk_children(dir, names, i, order) ==
    IF i > Len(names) THEN <<>>
    ELSE os_walk(dir \o <<names[i]>>, order) \o walk_children(dir, names, i + 1, order)

\* The file names directly in dir (the third element os.walk yields).
files_of(dir, markers) ==
    (IF dir \in markers THEN {CMAKE_LIST_FILE_NAME} ELSE {}) \cup {"notes.txt"}

RECURSIVE collect_cmake_files(_, _, _, _)
collect_cmake_files(start_path, walked, i, markers) ==
    IF i > Len(walked) THEN <<>>
    ELSE (IF CMAKE_LIST_FILE_NAME \in files_of(walked[i], markers)
          THEN << <<start_path>> \o walked[i] \o <<CMAKE_LIST_FILE_NAME>> >>
          ELSE <<>>)
         \o collect_cmake_files(start_path, walked, i + 1, markers)

\* Mutant of get_cmake_files: every visited directory is taken to hold the marker.
get_cmake_files_no_test(start_path, markers, order) ==
    collect_cmake_files(start_path, os_walk(<<>>, order), 1, Dirs)

\* Mutant of get_cmake_files: the marker name is looked for among all entries
\* of a directory, subdirectories included.
get_cmake_files_any_entry(start_path, markers, order) ==
    collect_cmake_files(start_path, os_walk(<<>>, order), 1,
        markers \cup {d \in Dirs : (d \o <<CMAKE_LIST_FILE_NAME>>) \in Dirs})

\* get_cmake_files(start_path): one joined path per visited directory holding the marker.
get_cmake_files(start_path, markers, order) ==
    collect_cmake_files(start_path, os_walk(<<>>, order), 1, markers)

\* The command line of one per-file invocation; every argument is a path
\* (a sequence of components), a literal being a one-component path.
check_command(file_path) == << <<"cmake-format">>, <<"--check">>, file_path >>

format_command(file_path) == << <<"cmake-format">>, file_path, <<"-o">>, file_path >>

lint_command(file_path, log_level) ==
    << <<"cmake-lint">>, <<"--log-level">>, <<log_level>>, file_path >>

version_command(tool) == << <<tool>>, <<"--version">> >>

\* Mutant of required_tool: run_cmake_lint looks for cmake-format too.
required_tool_always_format(command) == "cmake-format"

\* The executable a subcommand needs.
required_tool(command) == IF command = "format" THEN "cmake-format" ELSE "cmake-lint"

\* -------------------------------------------------------------------------
\* State
\* -------------------------------------------------------------------------
VARIABLES
    \* Normalizer process
    npc,                    \* position: idle, start, parsed, converted, waiting, done
    nargv,                  \* the command line it was given
    args,                   \* the parsed namespace
    logging_options,        \* LoggingOptions.create(...)
    command_and_arguments,  \* the normalized argument vector
    child,                  \* the child process of subprocess.run
    nexit,                  \* its exit code, once npc = "done"
    ncrashed,               \* it ended with an uncaught exception
    nout,                   \* what it printed
    environ,                \* os.environ
    script_is_file,         \* os.path.isfile of the tool script path
    \* Tool Runner process
    rpc,                    \* position: idle, start, check_dir, ..., done
    rargv,                  \* sys.argv[1:]
    rargs,                  \* the parsed namespace
    root_is_dir,            \* os.path.isdir(root_path)
    path_tools,             \* the executables shutil.which resolves
    marker_dirs,            \* the directories under root_path holding the marker file
    listing_order,          \* the order directory listings come in
    walked,                 \* get_cmake_files was called
    cmake_files,            \* its result
    idx,                    \* the per-file loop's position in cmake_files
    has_errors,             \* the aggregate failure flag
    invocations,            \* the external processes launched, in order
    rexit,                  \* its exit code, once rpc = "done"
    rcrashed,               \* it ended with an uncaught exception
    rout,                   \* what it printed
    \* convert_bool_argument on its own
    bool_arg,
    bool_result

nvars == <<npc, nargv, args, logging_options, command_and_arguments, child, nexit,
           ncrashed, nout, environ, script_is_file>>
rvars == <<rpc, rargv, rargs, root_is_dir, path_tools, marker_dirs, listing_order, walked,
           cmake_files, idx, has_errors, invocations, rexit, rcrashed, rout>>
bvars == <<bool_arg, bool_result>>
vars == <<nvars, rvars, bvars>>

\* -------------------------------------------------------------------------
\* Inputs and environments
\* -------------------------------------------------------------------------
ApplyInputs ==
    {S_true, <<"T", "r", "u", "e">>, S_yes, S_1, S_false, <<"N", "O">>, S_0,
     <<>>, <<"2">>, S_maybe}

\* The command lines of the Normalizer, as its four positionals and two flags.
\* A path that starts with "-" is one given after the "--" separator.
NormalizerArgvs ==
    [command : {"format", "lint", "build", "FORMAT"},
     path : {"some/dir/path", "--apply"},
     apply : ApplyInputs,
     log_level : {"debug", "info", "warning", "error", "trace", "WARNING"},
     verbose : BOOLEAN,
     quiet : BOOLEAN]

\* RUN_CMAKE_TOOL_DIR unset, set to the empty string, set to a directory
\* (without and with a trailing separator).
Environs ==
    {{}, {<<"RUN_CMAKE_TOOL_DIR", <<>>>>}, {<<"RUN_CMAKE_TOOL_DIR", <<"/opt/tools">>>>},
     {<<"RUN_CMAKE_TOOL_DIR", <<"/opt/tools", "/">>>>}}

\* The exit codes the tool script's process can end with.
ChildReturnCodes == {0, 1, 2, 11, 12, 13, 255}

RunnerTokens == {"format", "lint", "--apply", "--log-level", "error", "some/dir/path"}

RunnerArgvs ==
    {<<>>} \cup {<<t>> : t \in RunnerTokens} \cup (RunnerTokens \X RunnerTokens)
    \cup ({"format", "lint"} \X RunnerTokens \X RunnerTokens)
    \cup ({"format", "lint"} \X RunnerTokens \X RunnerTokens \X RunnerTokens)

\* The exit codes cmake-format and cmake-lint can end with.
ReturnCodes == {0, 2}

NoNamespace == SystemExit2
NoChild ==
    [state |-> "none", executable |-> "", script |-> <<>>, arguments |-> <<>>,
     returncode |-> 0]

NormalizerIdle ==
    /\ npc = "idle"
    /\ nargv = [command |-> "", path |-> "", apply |-> <<>>, log_level |-> "",
                verbose |-> FALSE, quiet |-> FALSE]
    /\ args = NoNamespace
    /\ logging_options = [verbose |-> FALSE, quiet |-> FALSE]
    /\ command_and_arguments = <<>>
    /\ child = NoChild
    /\ nexit = 0
    /\ ncrashed = FALSE
    /\ nout = <<>>
    /\ environ = {}
    /\ script_is_file = FALSE

RunnerIdle ==
    /\ rpc = "idle"
    /\ rargv = <<>>
    /\ rargs = RunnerParseError
    /\ root_is_dir = FALSE
    /\ path_tools = {}
    /\ marker_dirs = {}
    /\ listing_order = DefaultListing
    /\ walked = FALSE
    /\ cmake_files = <<>>
    /\ idx = 0
    /\ has_errors = FALSE
    /\ invocations = <<>>
    /\ rexit = 0
    /\ rcrashed = FALSE
    /\ rout = <<>>

BoolIdle == bool_arg = <<>> /\ bool_result = "idle"

\* The Normalizer is started with a command line.
InitNormalizer ==
    /\ npc = "start"
    /\ nargv \in NormalizerArgvs
    /\ args = NoNamespace
    /\ logging_options = [verbose |-> FALSE, quiet |-> FALSE]
    /\ command_and_arguments = <<>>
    /\ child = NoChild
    /\ nexit = 0
    /\ ncrashed = FALSE
    /\ nout = <<>>
    /\ environ \in Environs
    /\ script_is_file \in BOOLEAN
    /\ RunnerIdle
    /\ BoolIdle

\* The Tool Runner is started directly with a command line, in some environment.
InitRunner ==
    /\ rpc = "start"
    /\ rargv \in RunnerArgvs
    /\ rargs = RunnerParseError
    /\ root_is_dir \in BOOLEAN
    /\ path_tools \in SUBSET {"cmake-format", "cmake-lint"}
    /\ marker_dirs \in {m \in SUBSET MarkerCandidates :
                           Cardinality(m) <= MaxFiles /\ (~root_is_dir => m = {})}
    /\ listing_order \in
         IF Cardinality(marker_dirs) >= 2 THEN ListingOrders ELSE {DefaultListing}
    /\ walked = FALSE
    /\ cmake_files = <<>>
    /\ idx = 0
    /\ has_errors = FALSE
    /\ invocations = <<>>
    /\ rexit = 0
    /\ rcrashed = FALSE
    /\ rout = <<>>
    /\ NormalizerIdle
    /\ BoolIdle

Init == InitNormalizer \/ InitRunner

\* -------------------------------------------------------------------------
\* Normalizer actions (github_action_entrypoint.py)
\* -------------------------------------------------------------------------

\* main(): parser.parse_args() rejects the command line.
N_ParseError ==
    /\ npc = "start"
    /\ entrypoint_parse_args(nargv).error
    /\ npc' = "done"
    /\ nexit' = PARSER_ERROR
    /\ UNCHANGED <<nargv, args, logging_options, command_and_arguments, child, ncrashed,
                   nout, environ, script_is_file>>
    /\ UNCHANGED <<rvars, bvars>>

\* main(): parser.parse_args() accepts the command line.
N_ParseArgs ==
    /\ npc = "start"
    /\ ~entrypoint_parse_args(nargv).error
    /\ args' = entrypoint_parse_args(nargv)
    /\ npc' = "parsed"
    /\ UNCHANGED <<nargv, logging_options, command_and_arguments, child, nexit, ncrashed,
                   nout, environ, script_is_file>>
    /\ UNCHANGED <<rvars, bvars>>

\* execute_tool_command(): LoggingOptions.create and convert_args_to_run_cmake_tool.
N_Convert ==
    /\ npc = "parsed"
    /\ LET lo == LoggingOptions_create(args.verbose, args.quiet)
       IN  /\ logging_options' = lo
           /\ command_and_arguments' = convert_args_to_run_cmake_tool(args, lo)
           /\ nout' = nout \o convert_args_prints(args, lo)
    /\ npc' = "converted"
    /\ UNCHANGED <<nargv, args, child, nexit, ncrashed, environ, script_is_file>>
    /\ UNCHANGED <<rvars, bvars>>

\* Mutant of script_print: the line is printed whatever quiet says.
script_print_always(lo, line) == <<line>>

\* What run_cmake_tool_script prints: nothing when quiet.
script_print(lo, line) == IF lo.quiet THEN <<>> ELSE <<line>>

\* Mutant of N_ScriptNotFound: the error is printed but the return is missing,
\* so the child is launched all the same.
N_ScriptNotFound_no_return ==
    /\ npc = "converted"
    /\ ~script_is_file
    /\ nout' = nout \o script_print(logging_options, "Error: script was not found")
    /\ child' = [state |-> "running", executable |-> "sys.executable",
                 script |-> get_run_cmake_tool_script_path(environ),
                 arguments |-> command_and_arguments, returncode |-> 0]
    /\ npc' = "waiting"
    /\ UNCHANGED <<nargv, args, logging_options, command_and_arguments, nexit, ncrashed,
                   environ, script_is_file>>
    /\ UNCHANGED <<rvars, bvars>>

\* run_cmake_tool_script(): the script path does not name a file.
N_ScriptNotFound ==
    /\ npc = "converted"
    /\ ~script_is_file
    /\ nout' = nout \o script_print(logging_options, "Error: script was not found")
    /\ nexit' = TOOL_SCRIPT_NOT_FOUND
    /\ npc' = "done"
    /\ UNCHANGED <<nargv, args, logging_options, command_and_arguments, child, ncrashed,
                   environ, script_is_file>>
    /\ UNCHANGED <<rvars, bvars>>

\* subprocess_arguments = [sys.executable, run_cmake_tool_path] + command_and_arguments
subprocess_arguments(env, c_and_a) ==
    [state |-> "running", executable |-> "sys.executable",
     script |-> get_run_cmake_tool_script_path(env), arguments |-> c_and_a,
     returncode |-> 0]

\* run_cmake_tool_script(): subprocess.run starts the child.
N_SpawnChild ==
    /\ npc = "converted"
    /\ script_is_file
    /\ nout' = nout \o script_print(logging_options, "Running command")
    /\ child' = subprocess_arguments(environ, command_and_arguments)
    /\ npc' = "waiting"
    /\ UNCHANGED <<nargv, args, logging_options, command_and_arguments, nexit, ncrashed,
                   environ, script_is_file>>
    /\ UNCHANGED <<rvars, bvars>>

\* run_cmake_tool_script(): subprocess.run raises subprocess.SubprocessError,
\* which the except clause catches.
N_SpawnSubprocessError ==
    /\ npc = "converted"
    /\ script_is_file
    /\ nout' = nout \o script_print(logging_options, "Running command")
                    \o script_print(logging_options, "Error: An exception occurred")
    /\ nexit' = FAILED_TO_RUN_TOOL_SCRIPT
    /\ npc' = "done"
    /\ UNCHANGED <<nargv, args, logging_options, command_and_arguments, child, ncrashed,
                   environ, script_is_file>>
    /\ UNCHANGED <<rvars, bvars>>

\* run_cmake_tool_script(): the child cannot be started and subprocess.run raises
\* OSError (FileNotFoundError, PermissionError, ...).  OSError is no
\* SubprocessError: the except clause does not catch it, the exception leaves
\* main() and the interpreter ends with a traceback.
N_SpawnOSError ==
    /\ npc = "converted"
    /\ script_is_file
    /\ nout' = nout \o script_print(logging_options, "Running command")
    /\ ncrashed' = TRUE
    /\ nexit' = UNCAUGHT_EXCEPTION
    /\ npc' = "done"
    /\ UNCHANGED <<nargv, args, logging_options, command_and_arguments, child,
                   environ, script_is_file>>
    /\ UNCHANGED <<rvars, bvars>>

\* Mutant of returned_exit_code: any failure of the child is reported as 1.
returned_exit_code_collapsed(returncode) == IF returncode = 0 THEN 0 ELSE 1

\* return result.returncode: the exit code main() hands to sys.exit.
returned_exit_code(returncode) == returncode

\* run_cmake_tool_script(): the child ends and its return code is returned.
N_ChildExit ==
    /\ npc = "waiting"
    /\ \E rc \in ChildReturnCodes :
          /\ child' = [child EXCEPT !.state = "exited", !.returncode = rc]
          /\ nexit' = returned_exit_code(rc)
    /\ npc' = "done"
    /\ UNCHANGED <<nargv, args, logging_options, command_and_arguments, ncrashed, nout,
                   environ, script_is_file>>
    /\ UNCHANGED <<rvars, bvars>>

NormalizerNext ==
    \/ N_ParseError
    \/ N_ParseArgs
    \/ N_Convert
    \/ N_ScriptNotFound
    \/ N_SpawnChild
    \/ N_SpawnSubprocessError
    \/ N_SpawnOSError
    \/ N_ChildExit

\* -------------------------------------------------------------------------
\* Tool Runner actions (run_cmake_tool.py)
\* -------------------------------------------------------------------------
renv == <<rargv, root_is_dir, path_tools, marker_dirs, listing_order>>

Line(msg, file) == [msg |-> msg, file |-> file]

\* The Tool Runner ends with an exit code.
RunnerExit(code, lines) ==
    /\ rexit' = code
    /\ rout' = rout \o lines
    /\ rpc' = "done"

\* main(): parser.parse_args() rejects the command line.
R_ParseError ==
    /\ rpc = "start"
    /\ runner_parse_args(rargv).error
    /\ RunnerExit(PARSER_ERROR, <<Line("Run CMake Tool Script", <<>>)>>)
    /\ UNCHANGED <<renv, rargs, walked, cmake_files, idx, has_errors, invocations, rcrashed>>
    /\ UNCHANGED <<nvars, bvars>>

\* main(): parser.parse_args() accepts the command line; args.func is called.
R_ParseArgs ==
    /\ rpc = "start"
    /\ ~runner_parse_args(rargv).error
    /\ rargs' = runner_parse_args(rargv)
    /\ rout' = rout \o <<Line("Run CMake Tool Script", <<>>), Line("Starting", <<>>)>>
    /\ rpc' = "check_dir"
    /\ UNCHANGED <<renv, walked, cmake_files, idx, has_errors, invocations, rexit, rcrashed>>
    /\ UNCHANGED <<nvars, bvars>>

\* Mutant of R_NotADirectory: the error is printed but the run goes on to the
\* next check.
R_NotADirectory_no_return ==
    /\ rpc = "check_dir"
    /\ ~root_is_dir
    /\ rout' = Append(rout, Line("Error: not a valid directory", <<>>))
    /\ rpc' = "check_tool"
    /\ UNCHANGED <<renv, rargs, walked, cmake_files, idx, has_errors, invocations, rexit,
                   rcrashed>>
    /\ UNCHANGED <<nvars, bvars>>

\* run_cmake_format / run_cmake_lint: os.path.isdir(start_path) is false.
R_NotADirectory ==
    /\ rpc = "check_dir"
    /\ ~root_is_dir
    /\ RunnerExit(INVALID_ARGUMENTS, <<Line("Error: not a valid directory", <<>>)>>)
    /\ UNCHANGED <<renv, rargs, walked, cmake_files, idx, has_errors, invocations, rcrashed>>
    /\ UNCHANGED <<nvars, bvars>>

R_IsDirectory ==
    /\ rpc = "check_dir"
    /\ root_is_dir
    /\ rpc' = "check_tool"
    /\ UNCHANGED <<renv, rargs, walked, cmake_files, idx, has_errors, invocations, rexit,
                   rcrashed, rout>>
    /\ UNCHANGED <<nvars, bvars>>

\* shutil.which(tool)
shutil_which(tool) == tool \in path_tools

\* run_cmake_format / run_cmake_lint: shutil.which finds no executable.
R_ToolNotFound ==
    /\ rpc = "check_tool"
    /\ ~shutil_which(required_tool(rargs.command))
    /\ RunnerExit(TOOL_NOT_FOUND, <<Line("Error: not installed or not found in PATH", <<>>)>>)
    /\ UNCHANGED <<renv, rargs, walked, cmake_files, idx, has_errors, invocations, rcrashed>>
    /\ UNCHANGED <<nvars, bvars>>

R_ToolFound ==
    /\ rpc = "check_tool"
    /\ shutil_which(required_tool(rargs.command))
    /\ rpc' = "discover"
    /\ UNCHANGED <<renv, rargs, walked, cmake_files, idx, has_errors, invocations, rexit,
                   rcrashed, rout>>
    /\ UNCHANGED <<nvars, bvars>>

\* run_cmake_format / run_cmake_lint: get_cmake_files(start_path) and the check
\* that it found something.
R_Discover ==
    /\ rpc = "discover"
    /\ LET found == get_cmake_files(rargs.path, marker_dirs, listing_order)
       IN  /\ cmake_files' = found
           /\ walked' = TRUE
           /\ IF found = <<>>
              THEN RunnerExit(NO_CMAKE_FILES_FOUND, <<Line("Error: No files found", <<>>)>>)
              ELSE /\ rpc' = "version"
                   /\ UNCHANGED <<rexit, rout>>
    /\ UNCHANGED <<renv, rargs, idx, has_errors, invocations, rcrashed>>
    /\ UNCHANGED <<nvars, bvars>>

\* One external process: its command line, how it went, its return code.
Process(argv) == [argv |-> argv, state |-> "running", returncode |-> 0]

\* The launch of an external process that could not be started.
FailedLaunch(argv, exception) == [argv |-> argv, state |-> exception, returncode |-> 0]

SetLast(seq, x) == [seq EXCEPT ![Len(seq)] = x]

\* An exception nothing catches leaves main(): traceback, exit code 1.
RunnerCrash ==
    /\ rcrashed' = TRUE
    /\ rexit' = UNCAUGHT_EXCEPTION
    /\ rpc' = "done"

\* subprocess.run([tool, "--version"]) starts the process.
R_VersionSpawn ==
    /\ rpc = "version"
    /\ invocations' = Append(invocations, Process(version_command(required_tool(rargs.command))))
    /\ rpc' = "version_wait"
    /\ UNCHANGED <<renv, rargs, walked, cmake_files, idx, has_errors, rexit, rcrashed, rout>>
    /\ UNCHANGED <<nvars, bvars>>

\* subprocess.run([tool, "--version"]) raises: the call is in no try block.
R_VersionSpawnFails ==
    /\ rpc = "version"
    /\ \E exception \in {"OSError", "SubprocessError"} :
          invocations' = Append(invocations,
              FailedLaunch(version_command(required_tool(rargs.command)), exception))
    /\ RunnerCrash
    /\ UNCHANGED <<renv, rargs, walked, cmake_files, idx, has_errors, rout>>
    /\ UNCHANGED <<nvars, bvars>>

\* Mutant of R_VersionWait: the return code of the version query is not looked at.
R_VersionWait_any_returncode ==
    /\ rpc = "version_wait"
    /\ \E rc \in ReturnCodes :
          invocations' = SetLast(invocations,
                [invocations[Len(invocations)] EXCEPT !.state = "returned", !.returncode = rc])
    /\ rout' = rout \o <<Line("version", <<>>), Line("Found files", <<>>)>>
    /\ rpc' = "files"
    /\ idx' = 1
    /\ UNCHANGED <<renv, rargs, walked, cmake_files, has_errors, rcrashed, rexit>>
    /\ UNCHANGED <<nvars, bvars>>

\* The version query ends: a non-zero return code ends the run.
R_VersionWait ==
    /\ rpc = "version_wait"
    /\ \E rc \in ReturnCodes :
          /\ invocations' = SetLast(invocations,
                [invocations[Len(invocations)] EXCEPT !.state = "returned", !.returncode = rc])
          /\ IF rc # 0
             THEN RunnerExit(GENERIC_FAILURE, <<Line("Error: Failed to get version", <<>>)>>)
                  /\ UNCHANGED idx
             ELSE /\ rout' = rout \o <<Line("version", <<>>), Line("Found files", <<>>)>>
                  /\ rpc' = "files"
                  /\ idx' = 1
                  /\ UNCHANGED rexit
    /\ UNCHANGED <<renv, rargs, walked, cmake_files, has_errors, rcrashed>>
    /\ UNCHANGED <<nvars, bvars>>

\* Mutant of per_file_command: format always writes in place.
per_file_command_always_write(ns, file_path) ==
    IF ns.command = "format"
    THEN format_command(file_path)
    ELSE lint_command(file_path, ns.log_level)

\* The per-file command of the selected mode: check_cmake_files_formatted,
\* format_cmake_files or lint_cmake_files.
per_file_command(ns, file_path) ==
    IF ns.command = "format"
    THEN (IF ns.apply THEN format_command(file_path) ELSE check_command(file_path))
    ELSE lint_command(file_path, ns.log_level)

\* The status line printed for a file whose process returned.
status_line(ns, rc, file_path) ==
    IF ns.command = "format" /\ ~ns.apply
    THEN (IF rc # 0 THEN Line("is not formatted correctly", file_path)
                   ELSE Line("is formatted correctly", file_path))
    ELSE (IF rc # 0 THEN Line("Error: Command failed", file_path)
                   ELSE Line("Success", file_path))

\* The aggregate flag after a file's process returned rc.
fold_returncode(flag, rc) == flag \/ rc # 0

\* for file_path in cmake_files: the loop goes on with the next file.
next_index(i) == i + 1

\* The exit code after the per-file loop.
final_exit_code(flag) == IF flag THEN GENERIC_FAILURE ELSE SUCCESS

\* Mutant of R_FileSpawn: the process is started and the loop goes on to the
\* next file without waiting for it.
R_FileSpawn_no_wait ==
    /\ rpc = "files"
    /\ idx <= Len(cmake_files)
    /\ rout' = Append(rout, Line("Processing", cmake_files[idx]))
    /\ invocations' = Append(invocations, Process(per_file_command(rargs, cmake_files[idx])))
    /\ idx' = next_index(idx)
    /\ UNCHANGED <<renv, rargs, walked, cmake_files, has_errors, rexit, rcrashed, rpc>>
    /\ UNCHANGED <<nvars, bvars>>

\* The loop body starts: subprocess.run starts the per-file process.
R_FileSpawn ==
    /\ rpc = "files"
    /\ idx <= Len(cmake_files)
    /\ rout' = Append(rout, Line("Processing", cmake_files[idx]))
    /\ invocations' = Append(invocations, Process(per_file_command(rargs, cmake_files[idx])))
    /\ rpc' = "file_wait"
    /\ UNCHANGED <<renv, rargs, walked, cmake_files, idx, has_errors, rexit, rcrashed>>
    /\ UNCHANGED <<nvars, bvars>>

\* subprocess.run raises subprocess.SubprocessError: caught, the file counts as failed.
R_FileSubprocessError ==
    /\ rpc = "files"
    /\ idx <= Len(cmake_files)
    /\ rout' = rout \o <<Line("Processing", cmake_files[idx]),
                         Line("An exception occurred", cmake_files[idx])>>
    /\ invocations' = Append(invocations,
          FailedLaunch(per_file_command(rargs, cmake_files[idx]), "SubprocessError"))
    /\ has_errors' = TRUE
    /\ idx' = next_index(idx)
    /\ UNCHANGED <<renv, rargs, walked, cmake_files, rexit, rcrashed, rpc>>
    /\ UNCHANGED <<nvars, bvars>>

\* subprocess.run raises OSError (the executable vanished, or cannot be run):
\* OSError is no SubprocessError, the except clause does not catch it.
R_FileOSError ==
    /\ rpc = "files"
    /\ idx <= Len(cmake_files)
    /\ rout' = Append(rout, Line("Processing", cmake_files[idx]))
    /\ invocations' = Append(invocations,
          FailedLaunch(per_file_command(rargs, cmake_files[idx]), "OSError"))
    /\ RunnerCrash
    /\ UNCHANGED <<renv, rargs, walked, cmake_files, idx, has_errors>>
    /\ UNCHANGED <<nvars, bvars>>

\* The per-file process ends: status line, output, the flag, the next file.
R_FileWait ==
    /\ rpc = "file_wait"
    /\ \E rc \in ReturnCodes :
          /\ invocations' = SetLast(invocations,
                [invocations[Len(invocations)] EXCEPT !.state = "returned", !.returncode = rc])
          /\ has_errors' = fold_returncode(has_errors, rc)
          /\ rout' = rout \o <<status_line(rargs, rc, cmake_files[idx]),
                               Line("output", cmake_files[idx])>>
    /\ idx' = next_index(idx)
    /\ rpc' = "files"
    /\ UNCHANGED <<renv, rargs, walked, cmake_files, rexit, rcrashed>>
    /\ UNCHANGED <<nvars, bvars>>

\* The loop is over: the summary line and the exit code.
R_Finish ==
    /\ rpc = "files"
    /\ idx > Len(cmake_files)
    /\ RunnerExit(final_exit_code(has_errors),
                  <<Line(IF has_errors THEN "Error: Some files" ELSE "All files", <<>>)>>)
    /\ UNCHANGED <<renv, rargs, walked, cmake_files, idx, has_errors, invocations, rcrashed>>
    /\ UNCHANGED <<nvars, bvars>>

RunnerNext ==
    \/ R_ParseError
    \/ R_ParseArgs
    \/ R_NotADirectory
    \/ R_IsDirectory
    \/ R_ToolNotFound
    \/ R_ToolFound
    \/ R_Discover
    \/ R_VersionSpawn
    \/ R_VersionSpawnFails
    \/ R_VersionWait
    \/ R_FileSpawn
    \/ R_FileSubprocessError
    \/ R_FileOSError
    \/ R_FileWait
    \/ R_Finish

Next == NormalizerNext \/ RunnerNext

Spec == Init /\ [][Next]_vars

\* -------------------------------------------------------------------------
\* convert_bool_argument on every literal
\* -------------------------------------------------------------------------
Alphabet == {"t", "T", "y", "n", "0", "1", "2", " "}

BoundedStrings == UNION {[1..n -> Alphabet] : n \in 0..MaxStrLen}

BoolLiterals == {S_true, S_yes, S_1, S_false, S_no, S_0}

\* Every spelling of a literal in upper and lower case letters.
CaseVariants(lit) ==
    {[i \in 1..Len(lit) |-> IF i \in up THEN UpperChar(lit[i]) ELSE lit[i]] :
        up \in SUBSET (1..Len(lit))}

ArgStrings ==
    BoundedStrings
    \cup UNION {CaseVariants(lit) : lit \in BoolLiterals}
    \cup {lit \o <<c>> : lit \in BoolLiterals, c \in Alphabet}
    \cup {S_maybe, <<"1", "1">>, <<"0", "0">>}

InitBool ==
    /\ bool_arg \in ArgStrings
    /\ bool_result = "pending"
    /\ NormalizerIdle
    /\ RunnerIdle

\* The call convert_bool_argument(arg).
B_Convert ==
    /\ bool_result = "pending"
    /\ bool_result' = convert_bool_argument(bool_arg)
    /\ UNCHANGED <<bool_arg, nvars, rvars>>

NextBool == B_Convert

SpecBool == InitBool /\ [][NextBool]_vars

\* -------------------------------------------------------------------------
\* Properties
\* -------------------------------------------------------------------------

\* The Normalizer got past argument parsing and built its argument vector.
Normalized == npc \in {"converted", "waiting", "done"} /\ ~args.error

TrueSpellings == CaseVariants(S_true) \cup CaseVariants(S_yes) \cup {S_1}
FalseSpellings == CaseVariants(S_false) \cup CaseVariants(S_no) \cup {S_0}

\* The Tool Runner accepted its command line.
RunnerParsed == rpc \notin {"idle", "start"} /\ ~rargs.error

\* The version query returned zero: the run reached the per-file loop.
ReachedDispatch ==
    /\ Len(invocations) >= 1
    /\ invocations[1].state = "returned"
    /\ invocations[1].returncode = 0

\* The per-file invocations made so far.
PerFile == IF invocations = <<>> THEN <<>> ELSE Tail(invocations)

\* C1: a run that reached per-file dispatch and ended has made one per-file
\* invocation for every discovered file, in order, whatever the earlier ones
\* returned, and its exit code is 0 if every one of them returned 0, else 1.
C1_NoShortCircuit ==
    (rpc = "done" /\ ReachedDispatch) =>
        /\ Len(PerFile) = Len(cmake_files)
        /\ \A i \in 1..Len(PerFile) :
              PerFile[i].argv = per_file_command(rargs, cmake_files[i])
        /\ rexit = IF \A i \in 1..Len(PerFile) :
                         PerFile[i].state = "returned" /\ PerFile[i].returncode = 0
                   THEN 0 ELSE 1

\* C2: a FORMAT request is normalized to ["format", path], with "--apply"
\* right after "format" exactly when apply is true, whatever the log level and
\* the verbose and quiet flags.
C2_FormatVector ==
    (Normalized /\ nargv.command = "format") =>
        command_and_arguments =
            IF nargv.apply \in TrueSpellings
            THEN <<"format", "--apply", nargv.path>>
            ELSE <<"format", nargv.path>>

C2_Witness ==
    /\ Normalized
    /\ nargv.command = "format"
    /\ nargv.apply \in TrueSpellings
    /\ nargv.log_level = "debug"
    /\ nargv.verbose
    /\ command_and_arguments = <<"format", "--apply", "some/dir/path">>

\* C3: a LINT request is normalized to ["lint", "--log-level", level, path]
\* with the requested level, whether apply is true or false.
C3_LintVector ==
    (Normalized /\ nargv.command = "lint") =>
        command_and_arguments = <<"lint", "--log-level", nargv.log_level, nargv.path>>

C3_Witness ==
    /\ Normalized
    /\ nargv.command = "lint"
    /\ nargv.apply \in TrueSpellings
    /\ nargv.log_level = "error"
    /\ command_and_arguments = <<"lint", "--log-level", "error", "some/dir/path">>

\* C4: a launched child gets the interpreter, the script path and then exactly
\* the normalized vector; the Normalizer ends only after the child has, and
\* with the child's exit code.
C4_ChildExitCode ==
    (child.state # "none") =>
        /\ child.arguments = command_and_arguments
        /\ child.executable = "sys.executable"
        /\ (child.state = "running" => npc = "waiting")
        /\ (npc = "done" => child.state = "exited" /\ nexit = child.returncode /\ ~ncrashed)

C4_Witness ==
    /\ npc = "done"
    /\ child.state = "exited"
    /\ child.returncode = 13
    /\ nexit = 13
    /\ child.arguments = <<"lint", "--log-level", "info", "some/dir/path">>

\* The executable the subcommand needs is not on the search path.
ToolMissing ==
    \/ rargs.command = "format" /\ "cmake-format" \notin path_tools
    \/ rargs.command = "lint" /\ "cmake-lint" \notin path_tools

\* C5 as stated: whenever the required executable is missing the run ends
\* with 11, without discovery and without any external process.
C5_Original ==
    (RunnerParsed /\ ToolMissing) =>
        /\ ~walked
        /\ invocations = <<>>
        /\ (rpc = "done" => rexit = 11)

\* C5 amended: when root_path is an existing directory and the required
\* executable is missing, the run ends with 11, without discovery and without
\* any external process.
C5_ToolNotFound ==
    (RunnerParsed /\ root_is_dir /\ ToolMissing) =>
        /\ ~walked
        /\ invocations = <<>>
        /\ rpc \in {"check_dir", "check_tool", "done"}
        /\ (rpc = "done" => rexit = 11 /\ ~rcrashed)

C5_Witness ==
    /\ rpc = "done"
    /\ rargs.command = "lint"
    /\ root_is_dir
    /\ path_tools = {"cmake-format"}
    /\ marker_dirs # {}
    /\ rexit = 11

\* C6 as stated: a tree without marker files ends the run with 13 and without
\* any external process.
C6_Original ==
    (RunnerParsed /\ root_is_dir /\ marker_dirs = {}) =>
        /\ invocations = <<>>
        /\ (rpc = "done" => rexit = 13)

\* C6 amended: a tree without marker files, with the required executable on
\* the search path, ends the run with 13 and without any external process.
C6_NoFiles ==
    (RunnerParsed /\ root_is_dir /\ ~ToolMissing /\ marker_dirs = {}) =>
        /\ invocations = <<>>
        /\ rpc \in {"check_dir", "check_tool", "discover", "done"}
        /\ (rpc = "done" => rexit = 13 /\ walked /\ cmake_files = <<>> /\ ~rcrashed)

C6_Witness ==
    /\ rpc = "done"
    /\ RunnerParsed
    /\ root_is_dir
    /\ ~ToolMissing
    /\ marker_dirs = {}
    /\ walked
    /\ rexit = 13

\* C7: when the script exists and the child could not be started, the
\* Normalizer ends with 102 and without an uncaught exception.
C7_SpawnFailure ==
    (npc = "done" /\ ~args.error /\ script_is_file /\ child.state = "none") =>
        (nexit = 102 /\ ~ncrashed)

\* C8: when the script path names no file, the Normalizer ends with 101 and
\* launches no child.
C8_ScriptNotFound ==
    (Normalized /\ ~script_is_file) =>
        /\ child.state = "none"
        /\ npc \in {"converted", "done"}
        /\ (npc = "done" => nexit = 101 /\ ~ncrashed)

C8_Witness ==
    /\ npc = "done"
    /\ Normalized
    /\ ~script_is_file
    /\ nexit = 101
    /\ environ = {<<"RUN_CMAKE_TOOL_DIR", <<"/opt/tools">>>>}

\* C9: convert_bool_argument returns True on every spelling of true, yes, 1,
\* False on every spelling of false, no, 0, and raises on any other string.
C9_BoolArgument ==
    (bool_result # "pending" /\ bool_result # "idle") =>
        bool_result =
            IF bool_arg \in TrueSpellings THEN "True"
            ELSE IF bool_arg \in FalseSpellings THEN "False"
            ELSE "ArgumentTypeError"

C9_Witness ==
    /\ bool_arg = <<"T", "R", "U", "E">>
    /\ bool_result = "True"

\* The Normalizer's command line has a positional the parser rejects.
Malformed ==
    \/ nargv.command \notin {"format", "lint"}
    \/ nargv.apply \notin (TrueSpellings \cup FalseSpellings)
    \/ nargv.log_level \notin {"debug", "info", "warning", "error"}

\* C10: a command line with an unknown command, an unrecognized apply literal
\* or an unknown log level ends in the parser's exit 2; nothing is normalized,
\* printed or launched.
C10_ParseError ==
    (npc \notin {"idle", "start"} /\ Malformed) =>
        /\ npc = "done"
        /\ nexit = 2
        /\ command_and_arguments = <<>>
        /\ child.state = "none"
        /\ nout = <<>>

C10_Witness ==
    /\ npc = "done"
    /\ nargv.command = "format"
    /\ nargv.apply = S_true
    /\ nargv.log_level = "trace"
    /\ nexit = 2

\* C11: the effective logging options are quiet = requested quiet and
\* verbose = requested verbose and not quiet; the two are never both true.
C11_LoggingOptions ==
    Normalized =>
        /\ logging_options.quiet = nargv.quiet
        /\ logging_options.verbose = (nargv.verbose /\ ~nargv.quiet)
        /\ ~(logging_options.verbose /\ logging_options.quiet)

C11_Witness ==
    /\ Normalized
    /\ nargv.verbose
    /\ nargv.quiet
    /\ logging_options = [verbose |-> FALSE, quiet |-> TRUE]

\* The exit code of a Normalizer run that parsed its command line, from what
\* happened to the script and the child alone.
ExitCodeWithoutQuiet ==
    IF ~script_is_file THEN TOOL_SCRIPT_NOT_FOUND
    ELSE IF child.state = "exited" THEN child.returncode
    ELSE IF ncrashed THEN UNCAUGHT_EXCEPTION
    ELSE FAILED_TO_RUN_TOOL_SCRIPT

\* C12: with quiet requested the Normalizer has printed nothing to standard
\* output at any point of a run, and the exit code of a run that parsed its
\* command line is decided by the script and the child, not by quiet.
C12_QuietPrintsNothing ==
    /\ (npc # "idle" /\ nargv.quiet) => nout = <<>>
    /\ (Normalized /\ npc = "done") => nexit = ExitCodeWithoutQuiet

C12_Witness ==
    /\ npc = "done"
    /\ Normalized
    /\ nargv.quiet
    /\ nargv.verbose
    /\ ~script_is_file
    /\ nout = <<>>
    /\ nexit = 101

\* The value of RUN_CMAKE_TOOL_DIR, <<>> when it is unset.
ToolDir == environ_get(environ, "RUN_CMAKE_TOOL_DIR", <<>>)

\* C13: the script the child is launched with is RUN_CMAKE_TOOL_DIR joined
\* with run_cmake_tool.py when the variable is set and non-empty, and
\* ./run_cmake_tool.py when it is unset or empty.
C13_ScriptPath ==
    child.state # "none" =>
        child.script =
            IF ToolDir = <<>> THEN <<".", "/", "run_cmake_tool.py">>
            ELSE IF ToolDir[Len(ToolDir)] = "/" THEN ToolDir \o <<"run_cmake_tool.py">>
            ELSE ToolDir \o <<"/", "run_cmake_tool.py">>

C13_Witness ==
    /\ child.state = "running"
    /\ environ = {<<"RUN_CMAKE_TOOL_DIR", <<>>>>}
    /\ child.script = <<".", "/", "run_cmake_tool.py">>

\* A per-file invocation could not be launched.
LaunchFailed == \E i \in 1..Len(PerFile) : PerFile[i].state \in {"OSError", "SubprocessError"}

\* C14: a run in which the launch of a per-file invocation failed does not end
\* with an uncaught exception: the failure sets the aggregate flag, every
\* discovered file has been attempted when the run ends, and the exit code is 1.
C14_LaunchFailureCaught ==
    (rpc = "done" /\ ReachedDispatch /\ LaunchFailed) =>
        /\ ~rcrashed
        /\ has_errors
        /\ Len(PerFile) = Len(cmake_files)
        /\ rexit = 1

\* C15: the checks run in the order directory, tool, discovery, version query.
\* The first failing one decides the exit code (12, 11, 13) with no external
\* process launched, and the first process launched is the version query,
\* after all three checks passed.
C15_CheckOrder ==
    /\ (RunnerParsed /\ rpc = "done") =>
          /\ ~root_is_dir => (rexit = 12 /\ invocations = <<>>)
          /\ (root_is_dir /\ ToolMissing) => (rexit = 11 /\ invocations = <<>>)
          /\ (root_is_dir /\ ~ToolMissing /\ marker_dirs = {}) =>
                (rexit = 13 /\ invocations = <<>>)
    /\ invocations # <<>> =>
          /\ root_is_dir
          /\ ~ToolMissing
          /\ walked
          /\ cmake_files # <<>>
          /\ invocations[1].argv \in {<< <<"cmake-format">>, <<"--version">> >>,
                                      << <<"cmake-lint">>, <<"--version">> >>}

C15_Witness ==
    /\ rpc = "done"
    /\ RunnerParsed
    /\ ~root_is_dir
    /\ path_tools = {}
    /\ rexit = 12
    /\ invocations = <<>>

\* The version query returned a non-zero exit code.
VersionFailed ==
    /\ Len(invocations) >= 1
    /\ invocations[1].state = "returned"
    /\ invocations[1].returncode # 0

\* C16: once the version query has returned a non-zero exit code the run is
\* over with exit code 1 and the version query is the only process launched.
C16_VersionFailure ==
    VersionFailed =>
        /\ rpc = "done"
        /\ rexit = 1
        /\ Len(invocations) = 1

C16_Witness ==
    /\ VersionFailed
    /\ rargs.command = "lint"
    /\ invocations[1].argv = << <<"cmake-lint">>, <<"--version">> >>
    /\ rpc = "done"
    /\ rexit = 1

\* --apply is on the Tool Runner's command line.
ApplyGiven == \E i \in 1..Len(rargv) : rargv[i] = "--apply"

\* C17: in a format run without --apply every per-file invocation is
\* cmake-format --check <file> and no invocation has -o; with --apply every
\* per-file invocation is cmake-format <file> -o <file>.
C17_FormatSubMode ==
    (RunnerParsed /\ rargs.command = "format") =>
        /\ Len(PerFile) <= Len(cmake_files)
        /\ \A i \in 1..Len(PerFile) :
              PerFile[i].argv =
                 IF ApplyGiven
                 THEN << <<"cmake-format">>, cmake_files[i], <<"-o">>, cmake_files[i] >>
                 ELSE << <<"cmake-format">>, <<"--check">>, cmake_files[i] >>
        /\ ~ApplyGiven =>
              \A i \in 1..Len(invocations) :
                 \A j \in 1..Len(invocations[i].argv) : invocations[i].argv[j] # <<"-o">>

C17_Witness ==
    /\ rpc = "done"
    /\ rargs.command = "format"
    /\ ~ApplyGiven
    /\ Len(PerFile) = 2
    /\ PerFile[1].state = "returned" /\ PerFile[1].returncode = 2
    /\ PerFile[2].state = "returned" /\ PerFile[2].returncode = 0

\* The position of the first occurrence of x in seq, 0 when there is none.
IndexOf(seq, x) ==
    IF \E i \in 1..Len(seq) : seq[i] = x
    THEN CHOOSE i \in 1..Len(seq) : seq[i] = x /\ \A j \in 1..(i - 1) : seq[j] # x
    ELSE 0

\* C18: only the process launched last can be running; a per-file invocation
\* is launched only after the version query returned; the i-th per-file
\* invocation is for the i-th discovered file; and the status and the output
\* of a file are printed before the next file's process is launched.
C18_OneAtATime ==
    /\ \A i \in 1..(Len(invocations) - 1) : invocations[i].state # "running"
    /\ PerFile # <<>> => ReachedDispatch
    /\ Len(PerFile) <= Len(cmake_files)
    /\ RunnerParsed =>
          \A i \in 1..Len(PerFile) :
             PerFile[i].argv = per_file_command(rargs, cmake_files[i])
    /\ \A i \in 1..(Len(PerFile) - 1) :
          PerFile[i].state = "returned" =>
             LET status == IndexOf(rout, status_line(rargs, PerFile[i].returncode,
                                                     cmake_files[i]))
                 output == IndexOf(rout, Line("output", cmake_files[i]))
                 next == IndexOf(rout, Line("Processing", cmake_files[i + 1]))
             IN  0 < status /\ status < output /\ output < next

C18_Witness ==
    /\ rpc = "file_wait"
    /\ Len(PerFile) = 2
    /\ PerFile[1].state = "returned"
    /\ PerFile[2].state = "running"

\* The paths discovery returned, as a set.
Discovered == {cmake_files[i] : i \in 1..Len(cmake_files)}

\* C19: discovery returns, once each, the paths <start_path>/<dir>/CMakeLists.txt
\* of the directories under start_path (start_path included) that directly
\* hold a file of that name, and nothing else: no path of a directory and no
\* path for a directory without the marker file.
C19_Discovery ==
    walked =>
        /\ Discovered = {<<rargs.path>> \o d \o <<"CMakeLists.txt">> : d \in marker_dirs}
        /\ Len(cmake_files) = Cardinality(marker_dirs)
        /\ \A d \in Dirs : (<<rargs.path>> \o d) \notin Discovered

C19_Witness ==
    /\ walked
    /\ marker_dirs = {<<"a">>, <<"a", "b">>}
    /\ cmake_files = << <<"some/dir/path", "a", "CMakeLists.txt">>,
                        <<"some/dir/path", "a", "b", "CMakeLists.txt">> >>

\* C20: the Tool Runner's parser accepts the normalized argument vector and
\* reads from it the requested operation, the requested path, apply exactly
\* when the FORMAT request has apply true, and the LINT request's log level.
C20_RoundTrip ==
    Normalized =>
        LET parsed == runner_parse_args(command_and_arguments)
        IN  /\ ~parsed.error
            /\ parsed.command = (IF args.command = "FORMAT" THEN "format" ELSE "lint")
            /\ parsed.path = nargv.path
            /\ args.command = "FORMAT" => parsed.apply = (nargv.apply \in TrueSpellings)
            /\ args.command = "LINT" => parsed.log_level = nargv.log_level

====
